---- MODULE Spec2Model ----
(***************************************************************************)
(* The constraint controller of gatekeeper                                 *)
(* (pkg/controller/constraint/constraint_controller.go): the Reconcile     *)
(* pass of ReconcileConstraint, the ConstraintsCache it shares with the    *)
(* other passes, and the collaborators a pass talks to: the API server     *)
(* (client.Client), the OPA client, the stats reporter and the controller  *)
(* switch.                                                                 *)
(*                                                                         *)
(* One pass is a sequence of steps, one per blocking call on a shared      *)
(* object, so that passes of different constraints and the API server's    *)
(* other writers interleave between the calls.  Local computation is       *)
(* folded into the step of the call that follows it.  The controller       *)
(* runtime runs at most one pass per constraint key at a time.             *)
(***************************************************************************)
EXTENDS Integers, Sequences, FiniteSets, TLC

VARIABLES
    store,          \* API server: constraint key -> object (a map; absent = not found)
    events,         \* number of events from outside: writes of other clients, switch flips
    engine,         \* OPA client: constraint key -> constraint it holds
    cache,          \* ConstraintsCache.cache: constraint key -> tags
    mux,            \* ConstraintsCache.mux: number of holders of the read lock
    cs,             \* ControllerSwitch: running flag and passes inside Enter/Exit
    reported,       \* StatsReporter: last value recorded per tags
    pc,             \* per key: where the pass of that key stands ("idle" = none)
    instance,       \* per key: Reconcile's local `instance`
    result,         \* per key: the (reconcile.Result, error) the pass returns
    reportMetrics,  \* per key: Reconcile's local `reportMetrics`
    totals,         \* per key: reportTotalConstraints' local `totals`
    todo,           \* per key: the cache keys its range loop has still to visit
    calls,          \* per key: the calls the pass has made so far, in order
    read,           \* per key: the object as r.Get returned it in this pass
    lastOK,         \* per key: the last pass synced the object as it is stored now
    conflict        \* per key: the object was written by another client since the pass read it

vars == <<store, events, engine, cache, mux, cs, reported, pc, instance,
          result, reportMetrics, totals, todo, calls, read, lastOK, conflict>>

----------------------------------------------------------------------------
(* Bounds and vocabulary *)

MaxEvents == 2

finalizerName == "finalizers.gatekeeper.sh/constraint"

Keys == {"K/a", "K/b"}

Policies == {"X"}

KnownEnforcementActions == <<"deny", "dryrun">>

ActiveStatus == "active"

ErrorStatus == "error"

AllStatuses == <<ActiveStatus, ErrorStatus>>

NoErr == "nil"

AddErrors == {"bad rule"}

RemoveError == "remove failed"

ReadError == "read failed"

UnrecognizedConstraintError == "unrecognized constraint"

Nil == [nil |-> TRUE]

EmptyMap == [k \in {} |-> Nil]

----------------------------------------------------------------------------
(* Go maps and unstructured objects *)

Put(m, k, v) == [x \in DOMAIN m \cup {k} |-> IF x = k THEN v ELSE m[x]]

Del(m, k) == [x \in DOMAIN m \ {k} |-> m[x]]

Range(s) == {s[i] : i \in DOMAIN s}

NestedFieldCopy(obj, field) == IF field \in DOMAIN obj THEN obj[field] ELSE Nil

SetNestedField(obj, value, field) == Put(obj, field, value)

RemoveNestedField(obj, field) == Del(obj, field)

DeepCopy(obj) == obj

----------------------------------------------------------------------------
(* Helpers of the controller *)

RECURSIVE containsString(_, _)
containsString(s, items) ==
    IF items = <<>> THEN FALSE
    ELSE IF Head(items) = s THEN TRUE
    ELSE containsString(s, Tail(items))

RECURSIVE removeString(_, _)
removeString(s, items) ==
    IF items = <<>> THEN <<>>
    ELSE IF Head(items) # s
         THEN <<Head(items)>> \o removeString(s, Tail(items))
         ELSE removeString(s, Tail(items))

HasFinalizer_skip(obj) == TRUE

HasFinalizer(obj) == containsString(finalizerName, obj.finalizers)

RemoveFinalizer(obj) ==
    [obj EXCEPT !.finalizers = removeString(finalizerName, obj.finalizers)]

AddFinalizer_skip(obj) == obj

AddFinalizer(obj) ==
    [obj EXCEPT !.finalizers = Append(obj.finalizers, finalizerName)]

\* strings.Join([]string{kind, name}, "/"): the key the object is stored under
constraintKey(obj) == obj.key

\* util.GetEnforcementAction: the action the constraint's spec names.  The
\* objects of the model all carry a known action, so the error return of
\* lines 160-162 is not taken.
GetEnforcementAction(obj) == obj.spec.enforcementAction

\* csutil.GetHAStatus: the status this pod keeps in the object, a fresh one
\* when the object has none.  The statuses of the model are all well formed,
\* so the error returns of lines 187-189, 191-193 and 213-215 are not taken.
GetHAStatus(obj) ==
    IF "status" \in DOMAIN obj THEN obj.status
    ELSE [enforced |-> FALSE, errors |-> <<>>]

\* csutil.SetHAStatus
SetHAStatus(obj, status) == SetNestedField(obj, status, "status")

ClearErrors_keep(status) == status

\* status.Errors = nil
ClearErrors(status) == [status EXCEPT !.errors = <<>>]

\* status.Errors = append(status.Errors, csutil.Error{Message: err.Error()})
AppendError(status, msg) == [status EXCEPT !.errors = Append(@, msg)]

\* status.Enforced = true
MarkEnforced(status) == [status EXCEPT !.enforced = TRUE]

PreserveStatus_drop(status, obj) == obj

\* if status != nil { SetNestedField(instance.Object, status, "status") }
PreserveStatus(status, obj) ==
    IF status # Nil THEN SetNestedField(obj, status, "status") ELSE obj

SemanticEqual_whole(obj, c) == obj = c

\* constraints.SemanticEqual: the policy content agrees; status is not policy
SemanticEqual(obj, c) == obj.spec = c.spec

\* the object handed to AddConstraint by cacheConstraint
StrippedCopy(obj) == RemoveNestedField(DeepCopy(obj), "status")

cacheConstraint_inPlace(inst) ==
    [instance |-> RemoveNestedField(inst, "status"),
     obj |-> RemoveNestedField(inst, "status")]

\* cacheConstraint: what the call leaves in `instance` and the object (obj) it
\* hands to AddConstraint
cacheConstraint(inst) ==
    [instance |-> inst, obj |-> StrippedCopy(inst)]

RemovalAborts_never(err) == FALSE

RemovalAborts_always(err) == err # NoErr

\* err != nil and err is no *opa.UnrecognizedConstraintError
RemovalAborts(err) == err # NoErr /\ err # UnrecognizedConstraintError

tags(action, status) == [enforcementAction |-> action, status |-> status]

----------------------------------------------------------------------------
(* ConstraintsCache *)

addConstraintKey_ifAbsent(c, key, t) ==
    IF key \in DOMAIN c THEN c
    ELSE Put(c, key, tags(t.enforcementAction, t.status))

addConstraintKey(c, key, t) ==
    Put(c, key, tags(t.enforcementAction, t.status))

deleteConstraintKey_noop(c, key) == c

deleteConstraintKey(c, key) == Del(c, key)

Lookup(m, k) == IF k \in DOMAIN m THEN m[k] ELSE 0

RECURSIVE CountOver(_, _)
CountOver(c, keys) ==
    IF keys = {} THEN EmptyMap
    ELSE LET k == CHOOSE x \in keys : TRUE
             rest == CountOver(c, keys \ {k})
         IN  Put(rest, c[k], Lookup(rest, c[k]) + 1)

RECURSIVE MarkOver(_, _)
MarkOver(c, keys) ==
    IF keys = {} THEN EmptyMap
    ELSE LET k == CHOOSE x \in keys : TRUE
         IN  Put(MarkOver(c, keys \ {k}), c[k], 1)

Totals_distinct(c) == MarkOver(c, DOMAIN c)

\* for _, v := range c.cache { totals[v]++ }
Totals(c) == CountOver(c, DOMAIN c)

\* totals[v]++
Tally(t, v) == Put(t, v, Lookup(t, v) + 1)

Lock_free(m) == TRUE

\* c.mux.Lock() is granted while no reader holds the lock; the writers of the
\* model hold it for one step
Lock(m) == m = 0

RECURSIVE StatusLoop(_, _, _)
StatusLoop(t, action, statuses) ==
    IF statuses = <<>> THEN <<>>
    ELSE <<[tag |-> tags(action, Head(statuses)),
            count |-> Lookup(t, tags(action, Head(statuses)))]>>
         \o StatusLoop(t, action, Tail(statuses))

RECURSIVE ActionLoop(_, _)
ActionLoop(t, actions) ==
    IF actions = <<>> THEN <<>>
    ELSE StatusLoop(t, Head(actions), AllStatuses) \o ActionLoop(t, Tail(actions))

\* the reportConstraints calls of one reportTotalConstraints, in order
ReportCalls(t) == ActionLoop(t, KnownEnforcementActions)

RECURSIVE Record(_, _)
Record(gauge, sent) ==
    IF sent = <<>> THEN gauge
    ELSE Record(Put(gauge, Head(sent).tag, Head(sent).count), Tail(sent))

----------------------------------------------------------------------------
(* The collaborators *)

\* The API server accepts a write of an object only at the resourceVersion it
\* holds.  A pass is the only controller writing its key, so its copy is out of
\* date exactly when another client wrote the object after the pass read it.
Current(key, obj) == key \in DOMAIN store /\ ~conflict[key]

\* The API server removes an object once its deletion is requested and no
\* finalizer is left on it.
StoreWrite(st, key, obj) ==
    IF obj.deleting /\ obj.finalizers = <<>> THEN Del(st, key) ELSE Put(st, key, obj)

\* What the OPA client keeps of a constraint handed to AddConstraint.
EngineView(obj) == [f \in DOMAIN obj \cap {"key", "spec", "status"} |-> obj[f]]

InitialStatuses == {Nil, [enforced |-> FALSE, errors |-> <<"stale">>]}

\* the finalizers of other controllers an object is created with
InitialFinalizers == {<<>>, <<"other.io/hold">>}

\* what an object is created with: neither a status nor a finalizer, or both
InitialExtras ==
    {x \in [status : InitialStatuses, finalizers : InitialFinalizers] :
       x.status = Nil <=> x.finalizers = <<>>}

NewObject(key, policy, action, status, finalizers) ==
    LET obj == [key |-> key,
                spec |-> [policy |-> policy, enforcementAction |-> action],
                deleting |-> FALSE,
                finalizers |-> finalizers]
    IN  IF status = Nil THEN obj ELSE SetNestedField(obj, status, "status")

CleanResult == [requeue |-> FALSE, err |-> NoErr]

RequeueResult_error == [requeue |-> FALSE, err |-> "failed"]

RequeueResult == [requeue |-> TRUE, err |-> NoErr]

ErrorResult(err) == [requeue |-> FALSE, err |-> err]

----------------------------------------------------------------------------
(* Initial state: an empty cluster, NewConstraintsCache(), no pass running *)

Init ==
    /\ store = EmptyMap
    /\ events = 0
    /\ engine = EmptyMap
    /\ cache = EmptyMap
    /\ mux = 0
    /\ cs = [running |-> TRUE, inside |-> 0]
    /\ reported = EmptyMap
    /\ pc = [k \in Keys |-> "idle"]
    /\ instance = [k \in Keys |-> Nil]
    /\ result = [k \in Keys |-> CleanResult]
    /\ reportMetrics = [k \in Keys |-> FALSE]
    /\ totals = [k \in Keys |-> EmptyMap]
    /\ todo = [k \in Keys |-> {}]
    /\ calls = [k \in Keys |-> <<>>]
    /\ read = [k \in Keys |-> Nil]
    /\ lastOK = [k \in Keys |-> FALSE]
    /\ conflict = [k \in Keys |-> FALSE]

passVars == <<pc, instance, result, reportMetrics, totals, todo, calls, read>>

\* a write of another client: the copy a running pass holds is out of date
Touched(key) ==
    /\ conflict' = [conflict EXCEPT ![key] = TRUE]
    /\ lastOK' = [lastOK EXCEPT ![key] = FALSE]

----------------------------------------------------------------------------
(* Other clients of the API server, and the switch *)

Create(key) ==
    /\ key \notin DOMAIN store
    /\ events < MaxEvents
    /\ events' = events + 1
    /\ \E policy \in Policies, extra \in InitialExtras :
         \E a \in DOMAIN KnownEnforcementActions :
           store' = Put(store, key,
                        NewObject(key, policy, KnownEnforcementActions[a],
                                  extra.status, extra.finalizers))
    /\ Touched(key)
    /\ UNCHANGED <<engine, cache, mux, cs, reported, passVars>>

UpdateSpec(key) ==
    /\ key \in DOMAIN store
    /\ events < MaxEvents
    /\ events' = events + 1
    /\ \E policy \in Policies : \E a \in DOMAIN KnownEnforcementActions :
         LET spec == [policy |-> policy,
                      enforcementAction |-> KnownEnforcementActions[a]]
         IN  /\ spec # store[key].spec
             /\ store' = Put(store, key,
                             [store[key] EXCEPT !.spec = spec])
    /\ Touched(key)
    /\ UNCHANGED <<engine, cache, mux, cs, reported, passVars>>

RequestDeletion(key) ==
    /\ key \in DOMAIN store
    /\ ~store[key].deleting
    /\ events < MaxEvents
    /\ events' = events + 1
    /\ store' = StoreWrite(store, key,
                           [store[key] EXCEPT !.deleting = TRUE])
    /\ Touched(key)
    /\ UNCHANGED <<engine, cache, mux, cs, reported, passVars>>

Stop ==
    /\ cs.running
    /\ events < MaxEvents
    /\ events' = events + 1
    /\ cs' = [cs EXCEPT !.running = FALSE]
    /\ UNCHANGED <<store, engine, cache, mux, reported, passVars, lastOK, conflict>>

Start ==
    /\ ~cs.running
    /\ events < MaxEvents
    /\ events' = events + 1
    /\ cs' = [cs EXCEPT !.running = TRUE]
    /\ UNCHANGED <<store, engine, cache, mux, reported, passVars, lastOK, conflict>>

----------------------------------------------------------------------------
(* Reconcile, one step per call on a shared object *)

Call(op, err) == [op |-> op, err |-> err]

Did(key, op) == \E i \in DOMAIN calls[key] : calls[key][i].op = op

DidWith(key, op, err) == Call(op, err) \in Range(calls[key])

\* a return statement: the result is fixed and the deferred calls are left
Return(key, res) ==
    /\ result' = [result EXCEPT ![key] = res]
    /\ pc' = [pc EXCEPT ![key] = "deferred"]

\* enabled := r.cs.Enter(); defer r.cs.Exit(); if !enabled { return }
Begin(key) ==
    /\ pc[key] = "idle"
    /\ cs' = [cs EXCEPT !.inside = @ + 1]
    /\ calls' = [calls EXCEPT ![key] = <<Call("Enter", NoErr)>>]
    /\ IF cs.running
       THEN /\ pc' = [pc EXCEPT ![key] = "get"]
            /\ UNCHANGED result
       ELSE Return(key, CleanResult)
    /\ UNCHANGED <<store, events, engine, cache, mux, reported, instance,
                   reportMetrics, totals, todo, read, lastOK, conflict>>

\* r.Get, the constraint key and enforcement action, and the branch on the
\* deletion timestamp and the finalizer
Get(key) ==
    /\ pc[key] = "get"
    /\ \/ /\ calls' = [calls EXCEPT ![key] = Append(@, Call("Get", ReadError))]
          /\ Return(key, ErrorResult(ReadError))
          /\ UNCHANGED <<instance, read, conflict>>
       \/ /\ key \notin DOMAIN store
          /\ calls' = [calls EXCEPT ![key] = Append(@, Call("Get", "not found"))]
          /\ Return(key, CleanResult)
          /\ UNCHANGED <<instance, read, conflict>>
       \/ /\ key \in DOMAIN store
          /\ calls' = [calls EXCEPT ![key] = Append(@, Call("Get", NoErr))]
          /\ instance' = [instance EXCEPT ![key] = store[key]]
          /\ read' = [read EXCEPT ![key] = store[key]]
          /\ conflict' = [conflict EXCEPT ![key] = FALSE]
          /\ IF ~store[key].deleting
             THEN /\ pc' = [pc EXCEPT ![key] =
                              IF HasFinalizer(store[key]) THEN "sync" ELSE "attach"]
                  /\ UNCHANGED result
             ELSE IF HasFinalizer(store[key])
                  THEN /\ pc' = [pc EXCEPT ![key] = "remove"]
                       /\ UNCHANGED result
                  ELSE Return(key, CleanResult)
    /\ UNCHANGED <<store, events, engine, cache, mux, cs, reported,
                   reportMetrics, totals, todo, lastOK>>

\* lines 173-183: the finalizer is attached with r.Update and the status the
\* object had is put back on what Update left in `instance`.  Update fills
\* `instance` with the server's answer, which may or may not carry the status.
Attach(key) ==
    /\ pc[key] = "attach"
    /\ LET status == NestedFieldCopy(instance[key], "status")
           marked == AddFinalizer(instance[key])
       IN  \/ /\ calls' = [calls EXCEPT ![key] = Append(@, Call("Update", "failed"))]
              /\ Return(key, RequeueResult)
              /\ UNCHANGED <<store, instance>>
           \/ /\ Current(key, marked)
              /\ calls' = [calls EXCEPT ![key] = Append(@, Call("Update", NoErr))]
              /\ store' = StoreWrite(store, key, marked)
              /\ \E answer \in {marked, RemoveNestedField(marked, "status")} :
                   instance' = [instance EXCEPT ![key] = PreserveStatus(status, answer)]
              /\ pc' = [pc EXCEPT ![key] = "sync"]
              /\ UNCHANGED result
    /\ UNCHANGED <<events, engine, cache, mux, cs, reported, reportMetrics,
                   totals, todo, read, lastOK, conflict>>

\* lines 186-195 and 210: the status is read and its errors cleared, the engine
\* is asked for the constraint, and the constraint is added unless the engine
\* holds a semantically equal one.  GetConstraint fails when the engine does
\* not hold the constraint.
Sync(key) ==
    /\ pc[key] = "sync"
    /\ LET status == ClearErrors(GetHAStatus(instance[key]))
           cleared == SetHAStatus(instance[key], status)
           enforced == SetHAStatus(cleared, MarkEnforced(status))
           cached == cacheConstraint(cleared)
           held == key \in DOMAIN engine
       IN  IF held /\ SemanticEqual(cleared, engine[key])
           THEN /\ calls' = [calls EXCEPT ![key] =
                               Append(@, Call("GetConstraint", NoErr))]
                /\ instance' = [instance EXCEPT ![key] = enforced]
                /\ pc' = [pc EXCEPT ![key] = "statusEnforced"]
                /\ UNCHANGED <<engine, result>>
           ELSE \/ /\ calls' = [calls EXCEPT ![key] =
                         @ \o <<Call("GetConstraint", IF held THEN NoErr ELSE "not found"),
                                Call("AddConstraint", NoErr)>>]
                   /\ engine' = Put(engine, key, EngineView(cached.obj))
                   /\ instance' = [instance EXCEPT ![key] =
                                     SetHAStatus(cached.instance, MarkEnforced(status))]
                   /\ pc' = [pc EXCEPT ![key] = "statusEnforced"]
                   /\ UNCHANGED result
                \/ \E err \in AddErrors :
                   /\ calls' = [calls EXCEPT ![key] =
                         @ \o <<Call("GetConstraint", IF held THEN NoErr ELSE "not found"),
                                Call("AddConstraint", err)>>]
                   /\ instance' = [instance EXCEPT ![key] = cached.instance]
                   /\ result' = [result EXCEPT ![key] = ErrorResult(err)]
                   /\ pc' = [pc EXCEPT ![key] = "cacheError"]
                   /\ UNCHANGED engine
    /\ UNCHANGED <<store, events, cache, mux, cs, reported, reportMetrics,
                   totals, todo, read, lastOK, conflict>>

\* lines 196-203: the cache entry becomes (action, error) and the message is
\* appended to the status
CacheError(key) ==
    /\ pc[key] = "cacheError"
    /\ Lock(mux)
    /\ cache' = addConstraintKey(cache, constraintKey(instance[key]),
                                 tags(GetEnforcementAction(instance[key]), ErrorStatus))
    /\ calls' = [calls EXCEPT ![key] = Append(@, Call("addConstraintKey", NoErr))]
    /\ instance' = [instance EXCEPT ![key] =
                      SetHAStatus(@, AppendError(GetHAStatus(@), result[key].err))]
    /\ pc' = [pc EXCEPT ![key] = "statusError"]
    /\ UNCHANGED <<store, events, engine, mux, cs, reported, result,
                   reportMetrics, totals, todo, read, lastOK, conflict>>

\* r.Status().Update: only the status of the stored object is written
StatusWrite(st, key, obj) ==
    Put(st, key, SetNestedField(st[key], obj.status, "status"))

\* lines 204-208: the status write is best effort, the pass returns the error
\* of AddConstraint
StatusError(key) ==
    /\ pc[key] = "statusError"
    /\ \/ /\ calls' = [calls EXCEPT ![key] = Append(@, Call("Status.Update", "failed"))]
          /\ UNCHANGED store
       \/ /\ Current(key, instance[key])
          /\ calls' = [calls EXCEPT ![key] = Append(@, Call("Status.Update", NoErr))]
          /\ store' = StatusWrite(store, key, instance[key])
    /\ reportMetrics' = [reportMetrics EXCEPT ![key] = TRUE]
    /\ Return(key, result[key])
    /\ UNCHANGED <<events, engine, cache, mux, cs, reported, instance,
                   totals, todo, read, lastOK, conflict>>

\* lines 212-218: status.Enforced = true is written; a failed write asks for a
\* requeue
StatusEnforced(key) ==
    /\ pc[key] = "statusEnforced"
    /\ \/ /\ calls' = [calls EXCEPT ![key] = Append(@, Call("Status.Update", "failed"))]
          /\ Return(key, RequeueResult)
          /\ UNCHANGED store
       \/ /\ Current(key, instance[key])
          /\ calls' = [calls EXCEPT ![key] = Append(@, Call("Status.Update", NoErr))]
          /\ store' = StatusWrite(store, key, instance[key])
          /\ pc' = [pc EXCEPT ![key] = "cacheActive"]
          /\ UNCHANGED result
    /\ UNCHANGED <<events, engine, cache, mux, cs, reported, instance,
                   reportMetrics, totals, todo, read, lastOK, conflict>>

\* lines 220-224 and 244
CacheActive(key) ==
    /\ pc[key] = "cacheActive"
    /\ Lock(mux)
    /\ cache' = addConstraintKey(cache, constraintKey(instance[key]),
                                 tags(GetEnforcementAction(instance[key]), ActiveStatus))
    /\ calls' = [calls EXCEPT ![key] = Append(@, Call("addConstraintKey", NoErr))]
    /\ reportMetrics' = [reportMetrics EXCEPT ![key] = TRUE]
    /\ Return(key, CleanResult)
    /\ UNCHANGED <<store, events, engine, mux, cs, reported, instance,
                   totals, todo, read, lastOK, conflict>>

\* lines 228-235: RemoveConstraint; an engine that holds the constraint drops
\* it or fails, one that does not hold it reports it unrecognized or fails
Remove(key) ==
    /\ pc[key] = "remove"
    /\ \E err \in {RemoveError,
                   IF key \in DOMAIN engine THEN NoErr ELSE UnrecognizedConstraintError} :
         /\ calls' = [calls EXCEPT ![key] = Append(@, Call("RemoveConstraint", err))]
         /\ engine' = IF err = NoErr THEN Del(engine, key) ELSE engine
         /\ IF RemovalAborts(err)
            THEN /\ Return(key, ErrorResult(err))
                 /\ UNCHANGED instance
            ELSE /\ instance' = [instance EXCEPT ![key] = RemoveFinalizer(@)]
                 /\ pc' = [pc EXCEPT ![key] = "unmark"]
                 /\ UNCHANGED result
    /\ UNCHANGED <<store, events, cache, mux, cs, reported, reportMetrics,
                   totals, todo, read, lastOK, conflict>>

\* lines 236-238: the object without the finalizer is written
Unmark(key) ==
    /\ pc[key] = "unmark"
    /\ \/ /\ calls' = [calls EXCEPT ![key] = Append(@, Call("Update", "failed"))]
          /\ Return(key, RequeueResult)
          /\ UNCHANGED store
       \/ /\ Current(key, instance[key])
          /\ calls' = [calls EXCEPT ![key] = Append(@, Call("Update", NoErr))]
          /\ store' = StoreWrite(store, key, instance[key])
          /\ pc' = [pc EXCEPT ![key] = "cacheDelete"]
          /\ UNCHANGED result
    /\ UNCHANGED <<events, engine, cache, mux, cs, reported, instance,
                   reportMetrics, totals, todo, read, lastOK, conflict>>

\* lines 240-244
CacheDelete(key) ==
    /\ pc[key] = "cacheDelete"
    /\ Lock(mux)
    /\ cache' = deleteConstraintKey(cache, constraintKey(instance[key]))
    /\ calls' = [calls EXCEPT ![key] = Append(@, Call("deleteConstraintKey", NoErr))]
    /\ reportMetrics' = [reportMetrics EXCEPT ![key] = TRUE]
    /\ Return(key, CleanResult)
    /\ UNCHANGED <<store, events, engine, mux, cs, reported, instance,
                   totals, todo, read, lastOK, conflict>>

\* the pass synced a live constraint and returned no error and no requeue
SyncedCleanly(key) ==
    /\ result[key] = CleanResult
    /\ read[key] # Nil
    /\ ~read[key].deleting
    /\ DidWith(key, "Status.Update", NoErr)

Exit_unpaired(key) ==
    /\ UNCHANGED cs
    /\ pc' = [pc EXCEPT ![key] = "idle"]
    /\ lastOK' = [lastOK EXCEPT ![key] =
                    IF read[key] = Nil THEN @ ELSE SyncedCleanly(key) /\ ~conflict[key]]
    /\ UNCHANGED conflict
    /\ instance' = [instance EXCEPT ![key] = Nil]
    /\ result' = [result EXCEPT ![key] = CleanResult]
    /\ reportMetrics' = [reportMetrics EXCEPT ![key] = FALSE]
    /\ totals' = [totals EXCEPT ![key] = EmptyMap]
    /\ todo' = [todo EXCEPT ![key] = {}]
    /\ calls' = [calls EXCEPT ![key] = <<>>]
    /\ read' = [read EXCEPT ![key] = Nil]

\* r.cs.Exit() and the return to the caller
Exit(key) ==
    /\ cs' = [cs EXCEPT !.inside = @ - 1]
    /\ pc' = [pc EXCEPT ![key] = "idle"]
    /\ lastOK' = [lastOK EXCEPT ![key] =
                    IF read[key] = Nil THEN @ ELSE SyncedCleanly(key) /\ ~conflict[key]]
    /\ UNCHANGED conflict
    /\ instance' = [instance EXCEPT ![key] = Nil]
    /\ result' = [result EXCEPT ![key] = CleanResult]
    /\ reportMetrics' = [reportMetrics EXCEPT ![key] = FALSE]
    /\ totals' = [totals EXCEPT ![key] = EmptyMap]
    /\ todo' = [todo EXCEPT ![key] = {}]
    /\ calls' = [calls EXCEPT ![key] = <<>>]
    /\ read' = [read EXCEPT ![key] = Nil]

Leave_unreported(key) ==
    /\ pc[key] = "deferred"
    /\ Exit(key)
    /\ UNCHANGED <<store, events, engine, cache, mux, reported>>

\* the deferred calls of a pass that reports no metrics
Leave(key) ==
    /\ pc[key] = "deferred"
    /\ ~reportMetrics[key]
    /\ Exit(key)
    /\ UNCHANGED <<store, events, engine, cache, mux, reported>>

\* reportTotalConstraints, lines 326-333: the read lock is taken and the
\* entries are counted per tags.  The range loop is one step here: while the
\* read lock is held no writer runs, so nothing can fall between two
\* iterations.  LoopSpec below takes the loop one iteration at a time.
Aggregate(key) ==
    /\ pc[key] = "deferred"
    /\ reportMetrics[key]
    /\ mux' = mux + 1
    /\ totals' = [totals EXCEPT ![key] = Totals(cache)]
    /\ calls' = [calls EXCEPT ![key] = Append(@, Call("reportTotalConstraints", NoErr))]
    /\ pc' = [pc EXCEPT ![key] = "report"]
    /\ UNCHANGED <<store, events, engine, cache, cs, reported, instance, result,
                   reportMetrics, todo, read, lastOK, conflict>>

\* lines 335-350: one reportConstraints per action and status, and the lock is
\* released; then r.cs.Exit().  An error of the
\* reporter is only logged (line 346); the reporter of the model records
\* every call.
Report(key) ==
    /\ pc[key] = "report"
    /\ reported' = Record(reported, ReportCalls(totals[key]))
    /\ mux' = mux - 1
    /\ Exit(key)
    /\ UNCHANGED <<store, events, engine, cache>>

----------------------------------------------------------------------------

Next ==
    \/ \E key \in Keys : Create(key)
    \/ \E key \in Keys : UpdateSpec(key)
    \/ \E key \in Keys : RequestDeletion(key)
    \/ Stop
    \/ Start
    \/ \E key \in Keys : Begin(key)
    \/ \E key \in Keys : Get(key)
    \/ \E key \in Keys : Attach(key)
    \/ \E key \in Keys : Sync(key)
    \/ \E key \in Keys : CacheError(key)
    \/ \E key \in Keys : StatusError(key)
    \/ \E key \in Keys : StatusEnforced(key)
    \/ \E key \in Keys : CacheActive(key)
    \/ \E key \in Keys : Remove(key)
    \/ \E key \in Keys : Unmark(key)
    \/ \E key \in Keys : CacheDelete(key)
    \/ \E key \in Keys : Leave(key)
    \/ \E key \in Keys : Aggregate(key)
    \/ \E key \in Keys : Report(key)

Spec == Init /\ [][Next]_vars

----------------------------------------------------------------------------
(* reportTotalConstraints with its range loop taken one iteration at a time *)

\* lines 326-328: the read lock is taken and the range loop over the cache
\* starts
AggregateStart(key) ==
    /\ pc[key] = "deferred"
    /\ reportMetrics[key]
    /\ mux' = mux + 1
    /\ totals' = [totals EXCEPT ![key] = EmptyMap]
    /\ todo' = [todo EXCEPT ![key] = DOMAIN cache]
    /\ calls' = [calls EXCEPT ![key] = Append(@, Call("reportTotalConstraints", NoErr))]
    /\ pc' = [pc EXCEPT ![key] = IF DOMAIN cache = {} THEN "report" ELSE "count"]
    /\ UNCHANGED <<store, events, engine, cache, cs, reported, instance, result,
                   reportMetrics, read, lastOK, conflict>>

\* lines 329-333: one iteration of the range loop, over the entries in any
\* order; an entry that is gone when its turn comes is not visited
Count(key) ==
    /\ pc[key] = "count"
    /\ \E k \in todo[key] :
         /\ totals' = [totals EXCEPT ![key] =
                         IF k \in DOMAIN cache THEN Tally(@, cache[k]) ELSE @]
         /\ todo' = [todo EXCEPT ![key] = @ \ {k}]
         /\ pc' = [pc EXCEPT ![key] = IF todo[key] = {k} THEN "report" ELSE "count"]
    /\ UNCHANGED <<store, events, engine, cache, mux, cs, reported, instance,
                   result, reportMetrics, calls, read, lastOK, conflict>>

\* The passes as in Next, with the loop in steps; the switch stays on.
LoopNext ==
    \/ \E key \in Keys : Create(key)
    \/ \E key \in Keys : UpdateSpec(key)
    \/ \E key \in Keys : RequestDeletion(key)
    \/ \E key \in Keys : Begin(key)
    \/ \E key \in Keys : Get(key)
    \/ \E key \in Keys : Attach(key)
    \/ \E key \in Keys : Sync(key)
    \/ \E key \in Keys : CacheError(key)
    \/ \E key \in Keys : StatusError(key)
    \/ \E key \in Keys : StatusEnforced(key)
    \/ \E key \in Keys : CacheActive(key)
    \/ \E key \in Keys : Remove(key)
    \/ \E key \in Keys : Unmark(key)
    \/ \E key \in Keys : CacheDelete(key)
    \/ \E key \in Keys : Leave(key)
    \/ \E key \in Keys : AggregateStart(key)
    \/ \E key \in Keys : Count(key)
    \/ \E key \in Keys : Report(key)

LoopSpec == Init /\ [][LoopNext]_vars

----------------------------------------------------------------------------
(* The controller under the scheduling the runtime gives it *)

\* what the passes of a key work towards: a live object carries the finalizer,
\* the engine holds its spec, its status is enforced without errors and its
\* cache entry is (action, active); an object that is being deleted or is gone
\* has no finalizer of ours, no constraint in the engine and no cache entry
Converged(key) ==
    IF key \in DOMAIN store /\ ~store[key].deleting
    THEN /\ finalizerName \in Range(store[key].finalizers)
         /\ key \in DOMAIN engine
         /\ engine[key].spec = store[key].spec
         /\ NestedFieldCopy(store[key], "status") = [enforced |-> TRUE, errors |-> <<>>]
         /\ key \in DOMAIN cache
         /\ cache[key] = tags(store[key].spec.enforcementAction, ActiveStatus)
    ELSE /\ key \in DOMAIN store => finalizerName \notin Range(store[key].finalizers)
         /\ key \notin DOMAIN engine
         /\ key \notin DOMAIN cache

\* The work queue holds a key after each change notification and after each
\* pass that returned an error or a requeue.  A change not yet read by a pass
\* shows as `conflict`; a pass that returned neither error nor requeue and
\* missed no change has left the key converged (C20_CleanMeansConverged).
Pending(key) == conflict[key] \/ ~Converged(key)

\* the step of a pass under way
PassStep(key) ==
    \/ Get(key) \/ Attach(key) \/ Sync(key) \/ CacheError(key)
    \/ StatusError(key) \/ StatusEnforced(key) \/ CacheActive(key)
    \/ Remove(key) \/ Unmark(key) \/ CacheDelete(key)
    \/ Leave(key) \/ Aggregate(key) \/ Report(key)

Failures == {ReadError, "failed", RemoveError} \cup AddErrors

\* no call made in the step fails
NoFailure ==
    \A key \in Keys :
      Len(calls'[key]) > Len(calls[key]) =>
        calls'[key][Len(calls'[key])].err \notin Failures

\* The fair specification follows the passes of one key.  The passes of other
\* keys touch neither its object nor its constraint nor its cache entry; they
\* meet it at the lock of the cache only, which an RWMutex grants to a waiting
\* writer before any new reader.
FairKeys == {"K/a"}

\* The passes as in Next; the switch stays on.
FairNext ==
    \/ \E key \in FairKeys : Create(key)
    \/ \E key \in FairKeys : UpdateSpec(key)
    \/ \E key \in FairKeys : RequestDeletion(key)
    \/ \E key \in FairKeys : Begin(key)
    \/ \E key \in FairKeys : Get(key)
    \/ \E key \in FairKeys : Attach(key)
    \/ \E key \in FairKeys : Sync(key)
    \/ \E key \in FairKeys : CacheError(key)
    \/ \E key \in FairKeys : StatusError(key)
    \/ \E key \in FairKeys : StatusEnforced(key)
    \/ \E key \in FairKeys : CacheActive(key)
    \/ \E key \in FairKeys : Remove(key)
    \/ \E key \in FairKeys : Unmark(key)
    \/ \E key \in FairKeys : CacheDelete(key)
    \/ \E key \in FairKeys : Leave(key)
    \/ \E key \in FairKeys : Aggregate(key)
    \/ \E key \in FairKeys : Report(key)

\* A queued key is handed to Reconcile, a Reconcile under way runs on to its
\* return, and from some time on no call fails.
FairSpec ==
    /\ Init
    /\ [][FairNext]_vars
    /\ \A key \in FairKeys : WF_vars(Pending(key) /\ Begin(key))
    /\ \A key \in FairKeys : WF_vars(PassStep(key))
    /\ <>[][NoFailure]_vars

----------------------------------------------------------------------------
(* Vocabulary of the properties *)

Entry(c, key) == IF key \in DOMAIN c THEN c[key] ELSE Nil

\* the pass of `key` takes the step
Steps(key) == pc'[key] # pc[key]

\* the pass of `key` has returned; its deferred calls are still to run
Returned(key) == pc[key] = "deferred"

MarkerInStore(key) == key \in DOMAIN store /\ HasFinalizer(store[key])

RemovalSucceeded(key) ==
    \/ DidWith(key, "RemoveConstraint", NoErr)
    \/ DidWith(key, "RemoveConstraint", UnrecognizedConstraintError)

RegistrationFailed(key) == \E err \in AddErrors : DidWith(key, "AddConstraint", err)

\* the pass added the constraint, or found the engine holding an equal one
Registered(key) ==
    \/ DidWith(key, "AddConstraint", NoErr)
    \/ DidWith(key, "GetConstraint", NoErr) /\ ~Did(key, "AddConstraint")

----------------------------------------------------------------------------
(* C1: finalizer ordering *)

C1_MarkerKept ==
    \A key \in Keys :
      Returned(key) /\ DidWith(key, "RemoveConstraint", RemoveError) =>
        /\ result[key] = ErrorResult(RemoveError)
        /\ MarkerInStore(key)

C1_MarkerStep ==
    \A key \in Keys :
      /\ MarkerInStore(key) /\ ~MarkerInStore(key)' =>
           /\ pc[key] = "unmark"
           /\ RemovalSucceeded(key)
      /\ DidWith(key, "RemoveConstraint", RemoveError)' =>
           Entry(cache', key) = Entry(cache, key)

\* C1: in a deletion pass the finalizer leaves the stored object only in the
\* Update that follows a RemoveConstraint of the same pass that succeeded or
\* reported the constraint unrecognized; when RemoveConstraint fails otherwise
\* the pass returns that error, the finalizer is still on the stored object and
\* the cache entry of the key is as it was.
C1_FinalizerOrdering == []C1_MarkerKept /\ [][C1_MarkerStep]_vars

C1_Witness ==
    \E key \in Keys :
      /\ Returned(key)
      /\ DidWith(key, "RemoveConstraint", RemoveError)
      /\ MarkerInStore(key)
      /\ key \in DOMAIN cache

----------------------------------------------------------------------------
(* C2: no removal from the store while the engine holds the constraint *)

C2_RemovalStep ==
    \A key \in Keys :
      key \in DOMAIN store /\ key \notin DOMAIN store' =>
        key \notin DOMAIN engine /\ key \notin DOMAIN engine'

\* C2: under every interleaving of passes with creations, updates and deletion
\* requests, an object leaves the store only when the engine does not hold the
\* constraint of its key.
C2_NeverRemovedWhileLoaded == [][C2_RemovalStep]_vars

C2_Witness ==
    \E key \in Keys :
      /\ pc[key] = "cacheDelete"
      /\ DidWith(key, "RemoveConstraint", NoErr)
      /\ key \notin DOMAIN store
      /\ key \notin DOMAIN engine

----------------------------------------------------------------------------
(* C3: redelivery *)

\* what a pass that synced cleanly leaves behind, for as long as no other
\* client writes the object
C3_Left ==
    \A key \in Keys :
      lastOK[key] =>
        /\ MarkerInStore(key)
        /\ ~store[key].deleting
        /\ NestedFieldCopy(store[key], "status") = [enforced |-> TRUE, errors |-> <<>>]
        /\ key \in DOMAIN engine /\ engine[key].spec = store[key].spec
        /\ Entry(cache, key) = tags(GetEnforcementAction(store[key]), ActiveStatus)

C3_RedeliveryStep ==
    \A key \in Keys :
      lastOK[key] /\ Steps(key) =>
        /\ ~Did(key, "AddConstraint")' /\ ~Did(key, "RemoveConstraint")'
        /\ Entry(engine', key) = Entry(engine, key)
        /\ Entry(store', key) = Entry(store, key)
        /\ Entry(cache', key) = Entry(cache, key)

\* C3: once a pass has synced a live object cleanly, a further pass for the
\* same key over the unchanged object calls neither AddConstraint nor
\* RemoveConstraint and leaves the stored status (enforced, no errors), the
\* finalizers, the engine's constraint and the cache entry as they were.
C3_Idempotent == []C3_Left /\ [][C3_RedeliveryStep]_vars

C3_Witness ==
    \E key \in Keys :
      /\ lastOK[key]
      /\ Returned(key)
      /\ DidWith(key, "GetConstraint", NoErr)
      /\ DidWith(key, "Status.Update", NoErr)
      /\ Did(key, "addConstraintKey")
      /\ result[key] = CleanResult

----------------------------------------------------------------------------
(* C4: what the cache entry says about the last pass *)

\* C4 as claimed: after a pass that registered the constraint (or found it
\* equal) the entry of the key is active, after a pass whose registration
\* failed it is error.
C4_ReflectsLastPass ==
    \A key \in Keys :
      Returned(key) /\ key \in DOMAIN cache =>
        /\ Registered(key) => cache[key].status = ActiveStatus
        /\ RegistrationFailed(key) => cache[key].status = ErrorStatus

C4_AtReturn ==
    \A key \in Keys :
      /\ DOMAIN cache \subseteq Keys
      /\ Returned(key) /\ RegistrationFailed(key) =>
           Entry(cache, key) = tags(GetEnforcementAction(read[key]), ErrorStatus)
      /\ Returned(key) /\ Registered(key) /\ DidWith(key, "Status.Update", NoErr) =>
           Entry(cache, key) = tags(GetEnforcementAction(read[key]), ActiveStatus)

C4_WriteStep ==
    \A key \in Keys :
      Entry(cache', key) # Entry(cache, key) =>
        \/ pc[key] = "cacheError" /\ RegistrationFailed(key)
        \/ pc[key] = "cacheActive" /\ Registered(key)
                                   /\ DidWith(key, "Status.Update", NoErr)
        \/ pc[key] = "cacheDelete"

\* C4 amended: the cache holds at most one entry per key, written only by the
\* passes of that key: a pass whose registration failed leaves (action, error),
\* a pass that registered the constraint (or found it equal) and whose status
\* write succeeded leaves (action, active), and a pass that registered but
\* whose status write failed leaves the entry as it found it.
C4_ReflectsLastWrite == []C4_AtReturn /\ [][C4_WriteStep]_vars

C4_Witness ==
    \E key \in Keys :
      /\ Returned(key)
      /\ Registered(key)
      /\ DidWith(key, "Status.Update", "failed")
      /\ key \in DOMAIN cache
      /\ cache[key].status = ErrorStatus

----------------------------------------------------------------------------
(* C5: when an entry leaves the cache *)

\* C5 as claimed (its last part): once a deletion pass has removed the
\* constraint from the engine, the cache holds no entry for the key.
C5_GoneOnceUnloaded ==
    \A key \in Keys :
      Returned(key) /\ DidWith(key, "RemoveConstraint", NoErr) =>
        key \notin DOMAIN cache

C5_AtReturn ==
    \A key \in Keys :
      Returned(key) /\ RemovalSucceeded(key) /\ DidWith(key, "Update", NoErr) =>
        key \notin DOMAIN cache

C5_DeleteStep ==
    \A key \in Keys :
      key \in DOMAIN cache /\ key \notin DOMAIN cache' =>
        /\ pc[key] = "cacheDelete"
        /\ RemovalSucceeded(key)
        /\ DidWith(key, "Update", NoErr)

\* C5 amended: an entry leaves the cache only in a pass whose RemoveConstraint
\* succeeded (or reported the constraint unrecognized) and whose Update without
\* the finalizer succeeded, and such a pass returns with no entry for its key;
\* a deletion pass whose Update failed keeps the entry although the engine no
\* longer holds the constraint.
C5_RemovedWhenProcessed == []C5_AtReturn /\ [][C5_DeleteStep]_vars

C5_Witness ==
    \E key \in Keys :
      /\ Returned(key)
      /\ DidWith(key, "RemoveConstraint", NoErr)
      /\ DidWith(key, "Update", NoErr)
      /\ Did(key, "deleteConstraintKey")
      /\ key \notin DOMAIN cache
      /\ key \notin DOMAIN store

----------------------------------------------------------------------------
(* C6: the status survives the Update that attaches the finalizer *)

\* C6: after the Update that attaches the finalizer, the object the pass holds
\* carries the status sub-object exactly as the object had it before the Update
\* (none when it had none), and the Update leaves the stored status as it was.
C6_StatusPreserved ==
    \A key \in Keys :
      pc[key] = "sync" /\ DidWith(key, "Update", NoErr) =>
        /\ NestedFieldCopy(instance[key], "status") = NestedFieldCopy(read[key], "status")
        /\ HasFinalizer(instance[key])
        /\ ~conflict[key] =>
             NestedFieldCopy(store[key], "status") = NestedFieldCopy(read[key], "status")

C6_Witness ==
    \E key \in Keys :
      /\ pc[key] = "sync"
      /\ DidWith(key, "Update", NoErr)
      /\ "status" \in DOMAIN read[key]
      /\ instance[key].status = [enforced |-> FALSE, errors |-> <<"stale">>]

----------------------------------------------------------------------------
(* C7: the aggregation *)

Cells == {tags(a, st) : a \in Range(KnownEnforcementActions), st \in Range(AllStatuses)}

EntriesWith(t) == Cardinality({k \in DOMAIN cache : cache[k] = t})

\* while a pass holds the read lock: the calls it is about to make
C7_Counts ==
    \A key \in Keys :
      pc[key] = "report" =>
        LET sent == ReportCalls(totals[key])
        IN  /\ \A t \in Cells : Cardinality({i \in DOMAIN sent : sent[i].tag = t}) = 1
            /\ \A i \in DOMAIN sent :
                 sent[i].tag \in Cells /\ sent[i].count = EntriesWith(sent[i].tag)

C7_ReportStep ==
    \A key \in Keys :
      /\ pc[key] \in {"deferred", "report"} /\ Steps(key) => cache' = cache
      /\ pc[key] = "report" /\ Steps(key) =>
           \A t \in Cells : t \in DOMAIN reported' /\ reported'[t] = EntriesWith(t)

\* C7: whatever the cache holds, reportTotalConstraints makes exactly one
\* reportConstraints call per (known enforcement action, known status), the
\* pairs without entries included, each with the number of cache entries that
\* carry that pair, and it leaves the cache as it is.
C7_AggregationComplete == []C7_Counts /\ [][C7_ReportStep]_vars

C7_Witness ==
    \E key \in Keys :
      /\ pc[key] = "report"
      /\ \E t \in Cells : Lookup(totals[key], t) = 2
      /\ \E t \in Cells : t \notin DOMAIN totals[key]

----------------------------------------------------------------------------
(* C8: a failed registration *)

C8_AtReturn ==
    \A key \in Keys : \A err \in AddErrors :
      Returned(key) /\ DidWith(key, "AddConstraint", err) =>
        /\ instance[key].status.errors = <<err>>
        /\ Entry(cache, key) = tags(GetEnforcementAction(read[key]), ErrorStatus)
        /\ reportMetrics[key]
        /\ result[key] = ErrorResult(err)
        /\ Did(key, "Status.Update")

C8_StatusStep ==
    \A key \in Keys :
      pc[key] = "statusError" /\ Steps(key) =>
        /\ DidWith(key, "Status.Update", NoErr)' =>
             store'[key].status.errors = <<result[key].err>>
        /\ DidWith(key, "Status.Update", "failed")' => store' = store
        /\ result'[key] = result[key]
        /\ result[key].err \in AddErrors

C8_ReportFollows ==
    \A key \in Keys :
      Returned(key) /\ reportMetrics[key] /\ Steps(key) =>
        pc'[key] = "report" /\ Did(key, "reportTotalConstraints")'

\* C8: when AddConstraint fails in a pass for a live object, the pass returns
\* with the status of its object holding that failure's message and no other,
\* the cache entry of the key (action, error), reportMetrics set (so that the
\* deferred reportTotalConstraints runs) and the error of AddConstraint as its
\* result; the status write stores that error list when it succeeds and changes
\* neither the store nor the result when it fails.
C8_RegistrationFailure ==
    []C8_AtReturn /\ [][C8_StatusStep]_vars /\ [][C8_ReportFollows]_vars

C8_Witness ==
    \E key \in Keys : \E err \in AddErrors :
      /\ Returned(key)
      /\ DidWith(key, "AddConstraint", err)
      /\ DidWith(key, "Status.Update", "failed")
      /\ "status" \in DOMAIN read[key]
      /\ read[key].status.errors # <<>>
      /\ result[key] = ErrorResult(err)

----------------------------------------------------------------------------
(* C9: enforced after a failed registration *)

\* C9 as claimed: whenever AddConstraint fails, the status the pass writes has
\* enforced = false and a non-empty error list, whatever passes came before.
C9_NotEnforcedOnFailure ==
    \A key \in Keys :
      Returned(key) /\ RegistrationFailed(key) =>
        /\ ~instance[key].status.enforced
        /\ instance[key].status.errors # <<>>

----------------------------------------------------------------------------
(* C10: a constraint the engine does not recognize *)

\* C10 as claimed: when RemoveConstraint reports the constraint unrecognized,
\* the finalizer is removed in the store, the cache entry is deleted, a report
\* is triggered and the pass returns no error and no requeue.
C10_UnknownAlwaysCompletes ==
    \A key \in Keys :
      Returned(key) /\ DidWith(key, "RemoveConstraint", UnrecognizedConstraintError) =>
        /\ ~MarkerInStore(key)
        /\ key \notin DOMAIN cache
        /\ reportMetrics[key]
        /\ result[key] = CleanResult

\* C10 amended: when RemoveConstraint reports the constraint unrecognized the
\* pass goes on to the Update without the finalizer and never returns an error;
\* when that Update succeeds the finalizer is gone from the store, the cache
\* entry is deleted, a report is triggered and the pass returns no error and no
\* requeue; when it fails the pass returns a requeue, with the finalizer and
\* the cache entry left as they were.
C10_UnknownIsSuccess ==
    \A key \in Keys :
      Returned(key) /\ DidWith(key, "RemoveConstraint", UnrecognizedConstraintError) =>
        /\ result[key].err = NoErr
        /\ Did(key, "Update")
        /\ DidWith(key, "Update", NoErr) =>
             /\ ~MarkerInStore(key)
             /\ key \notin DOMAIN cache
             /\ Did(key, "deleteConstraintKey")
             /\ reportMetrics[key]
             /\ result[key] = CleanResult
        /\ DidWith(key, "Update", "failed") =>
             /\ MarkerInStore(key)
             /\ ~Did(key, "deleteConstraintKey")
             /\ ~reportMetrics[key]
             /\ result[key] = RequeueResult

C10_Witness ==
    \E key \in Keys :
      /\ Returned(key)
      /\ DidWith(key, "RemoveConstraint", UnrecognizedConstraintError)
      /\ DidWith(key, "Update", NoErr)
      /\ key \notin DOMAIN store
      /\ result[key] = CleanResult

----------------------------------------------------------------------------
(* C11: a failed store write becomes a requeue *)

\* C11: a pass whose Update (attaching or removing the finalizer) failed, or
\* whose status write failed after the constraint was registered, returns
\* Requeue: true and a nil error.
C11_RequeueOnFailedWrite ==
    \A key \in Keys :
      Returned(key) =>
        /\ DidWith(key, "Update", "failed") =>
             result[key].requeue /\ result[key].err = NoErr
        /\ DidWith(key, "Status.Update", "failed") /\ Registered(key) =>
             result[key].requeue /\ result[key].err = NoErr

C11_Witness ==
    \E attach, status, unmark \in Keys :
      /\ Returned(status)
      /\ DidWith(status, "Status.Update", "failed")
      /\ DidWith(status, "AddConstraint", NoErr)
      /\ result[status] = [requeue |-> TRUE, err |-> NoErr]
      /\ \/ /\ Returned(attach)
            /\ DidWith(attach, "Update", "failed")
            /\ ~read[attach].deleting
         \/ /\ Returned(unmark)
            /\ DidWith(unmark, "Update", "failed")
            /\ read[unmark].deleting

----------------------------------------------------------------------------
(* C12: the passes without side effects *)

\* the pass returned because the switch was off, because r.Get found no object,
\* or because the object is being deleted and does not carry the finalizer
C12_GateOff(key) == calls[key] = <<Call("Enter", NoErr)>>

C12_Absent(key) == DidWith(key, "Get", "not found")

C12_Unmarked(key) ==
    /\ DidWith(key, "Get", NoErr)
    /\ read[key].deleting
    /\ finalizerName \notin Range(read[key].finalizers)

C12_NoOp(key) ==
    Returned(key) /\ (C12_GateOff(key) \/ C12_Absent(key) \/ C12_Unmarked(key))

C12_AtReturn ==
    \A key \in Keys :
      C12_NoOp(key) =>
        /\ \A i \in DOMAIN calls[key] : calls[key][i].op \in {"Enter", "Get"}
        /\ ~reportMetrics[key]
        /\ result[key].err = NoErr
        /\ ~result[key].requeue

C12_NoOpStep ==
    \A key \in Keys :
      Steps(key) /\ (C12_NoOp(key)' \/ C12_NoOp(key)) =>
        UNCHANGED <<store, engine, cache, mux, reported>>

\* C12: a pass that finds the switch off, or no object under its key, or an
\* object being deleted without the finalizer, calls neither the engine nor a
\* writing method of the API server, leaves store, engine, cache and reported
\* metrics as they were in the step that returns and in its deferred calls,
\* does not set reportMetrics, and returns no error and no requeue.
C12_NoSideEffects == []C12_AtReturn /\ [][C12_NoOpStep]_vars

C12_Witness ==
    \E key, other \in Keys :
      /\ C12_NoOp(key)
      /\ C12_Unmarked(key)
      /\ key \in DOMAIN store
      /\ C12_NoOp(other)
      /\ C12_Absent(other) \/ C12_GateOff(other)

----------------------------------------------------------------------------
(* C13: Enter and Exit bracket every pass *)

InFlight == {key \in Keys : pc[key] # "idle"}

C13_Paired ==
    /\ cs.inside = Cardinality(InFlight)
    /\ \A key \in Keys :
         IF key \in InFlight
         THEN /\ calls[key] # <<>>
              /\ \A i \in DOMAIN calls[key] : calls[key][i].op = "Enter" <=> i = 1
         ELSE calls[key] = <<>>

C13_BracketStep ==
    /\ \A key \in Keys :
         /\ Len(calls'[key]) > Len(calls[key]) =>
              \/ key \in InFlight
              \/ /\ calls'[key] = <<Call("Enter", NoErr)>>
                 /\ cs'.inside = cs.inside + 1
         /\ key \in InFlight /\ pc'[key] = "idle" =>
              /\ pc[key] \in {"deferred", "report"}
              /\ cs'.inside = cs.inside - 1
    /\ cs'.inside # cs.inside =>
         \E key \in Keys : (key \in InFlight) # (pc'[key] # "idle")

\* C13: Enter is the first call of every pass and is made once, Exit is made
\* once, after the return and the deferred report, whatever the return path;
\* the number of passes that entered and did not exit equals the number of
\* passes under way, so it is zero when none is; and every call a pass makes
\* on a collaborator falls between its Enter and its Exit.
C13_EnterExitBracket == []C13_Paired /\ [][C13_BracketStep]_vars

C13_Witness ==
    \E key, other \in Keys :
      /\ pc[key] = "idle"
      /\ lastOK[key]
      /\ Returned(other)
      /\ result[other].err # NoErr
      /\ cs.inside = 1

----------------------------------------------------------------------------
(* C14: one cache call and one report per pass *)

CacheOps == {"addConstraintKey", "deleteConstraintKey"}

CallsOf(key, ops) == {i \in DOMAIN calls[key] : calls[key][i].op \in ops}

C14_OnePerPass ==
    \A key \in Keys :
      /\ Cardinality(CallsOf(key, CacheOps)) <= 1
      /\ Cardinality(CallsOf(key, {"reportTotalConstraints"})) <= 1
      /\ \A i \in CallsOf(key, {"reportTotalConstraints"}) :
           /\ i = Len(calls[key])
           /\ \E j \in CallsOf(key, CacheOps) : j < i
           /\ pc[key] = "report"
      /\ Returned(key) => (reportMetrics[key] <=> CallsOf(key, CacheOps) # {})

C14_ExitStep ==
    \A key \in Keys :
      key \in InFlight /\ pc'[key] = "idle" =>
        (CallsOf(key, {"reportTotalConstraints"}) # {} <=> CallsOf(key, CacheOps) # {})

\* C14: a pass calls addConstraintKey or deleteConstraintKey at most once;
\* reportTotalConstraints runs at most once, as the last call of the pass and
\* after the cache call; and a pass ends having run it exactly when it made a
\* cache call.
C14_ReportIffMutated == []C14_OnePerPass /\ [][C14_ExitStep]_vars

C14_Witness ==
    \E key, other \in Keys :
      /\ pc[key] = "report"
      /\ CallsOf(key, CacheOps) # {}
      /\ CallsOf(key, {"reportTotalConstraints"}) # {}
      /\ Returned(other)
      /\ DidWith(other, "Status.Update", "failed")
      /\ ~reportMetrics[other]

----------------------------------------------------------------------------
(* C15: the engine never sees the status *)

\* the status the sync works on: the one the pass read, with no errors
C15_Cleared(key) == [GetHAStatus(read[key]) EXCEPT !.errors = <<>>]

C15_EngineHolds ==
    \A key \in DOMAIN engine :
      /\ "status" \notin DOMAIN engine[key]
      /\ DOMAIN engine[key] = {"key", "spec"}

C15_InstanceKept ==
    \A key \in Keys :
      Did(key, "AddConstraint") /\ pc[key] \in {"cacheError", "statusEnforced"} =>
        /\ "status" \in DOMAIN instance[key]
        /\ instance[key].status =
             IF pc[key] = "cacheError" THEN C15_Cleared(key)
             ELSE [C15_Cleared(key) EXCEPT !.enforced = TRUE]
        /\ instance[key].spec = read[key].spec
        /\ finalizerName \in Range(instance[key].finalizers)

C15_AddStep ==
    \A key \in Keys :
      pc[key] = "sync" /\ Did(key, "AddConstraint")' =>
        LET status == [GetHAStatus(instance[key]) EXCEPT !.errors = <<>>]
            obj == cacheConstraint(SetHAStatus(instance[key], status)).obj
        IN  /\ "status" \notin DOMAIN obj
            /\ obj.spec = instance[key].spec
            /\ DidWith(key, "AddConstraint", NoErr)' =>
                 engine'[key] = [key |-> key, spec |-> obj.spec]

\* C15: every object handed to AddConstraint is the pass's object without the
\* status field, so nothing the engine holds carries a status; and after
\* cacheConstraint the object of the pass still carries its status (the one it
\* read, errors cleared), which is what the status writes that follow store.
C15_StatusNeverSent ==
    []C15_EngineHolds /\ []C15_InstanceKept /\ [][C15_AddStep]_vars

C15_Witness ==
    \E key, other \in Keys :
      /\ pc[key] = "cacheError"
      /\ RegistrationFailed(key)
      /\ "status" \in DOMAIN read[key]
      /\ instance[key].status = C15_Cleared(key)
      /\ other \in DOMAIN engine
      /\ "status" \in DOMAIN store[other]

----------------------------------------------------------------------------
(* C16: the cache under concurrent writers and aggregations *)

\* the per-tags counts of the entries of cache `c` under the keys `keys`
C16_CountsOf(c, keys) ==
    LET present == {c[k] : k \in keys}
    IN  [t \in present |-> Cardinality({k \in keys : c[k] = t})]

C16_Snapshot ==
    \A key \in Keys :
      /\ pc[key] = "count" =>
           /\ mux > 0
           /\ todo[key] # {}
           /\ todo[key] \subseteq DOMAIN cache
           /\ totals[key] = C16_CountsOf(cache, DOMAIN cache \ todo[key])
      /\ pc[key] = "report" =>
           /\ mux > 0
           /\ totals[key] = C16_CountsOf(cache, DOMAIN cache)

C16_WriteStep ==
    cache' # cache =>
      /\ mux = 0 /\ mux' = 0
      /\ \E key \in Keys :
           /\ pc[key] \in {"cacheError", "cacheActive", "cacheDelete"}
           /\ Steps(key)
           /\ \A other \in Keys \ {key} : Entry(cache', other) = Entry(cache, other)

\* C16: with the range loop of reportTotalConstraints taken one iteration at a
\* time and passes of other keys writing the cache in between wherever the
\* lock lets them, a write changes the entry of one key in one step and only
\* while no aggregation holds the read lock, and the counts an aggregation has
\* gathered are at every iteration the per-tags counts of the entries it has
\* visited in the cache as it is; so the counts it reports are those of the
\* one cache state that lasted from its RLock to its RUnlock.
C16_ConsistentSnapshot == []C16_Snapshot /\ [][C16_WriteStep]_vars

C16_Witness ==
    \E key, other \in Keys :
      /\ pc[key] = "count"
      /\ Cardinality(todo[key]) = 1
      /\ Cardinality(DOMAIN cache) = 2
      /\ pc[other] \in {"cacheError", "cacheActive", "cacheDelete"}

----------------------------------------------------------------------------
(* C17: a constraint created without the finalizer *)

\* the pass read a live object without the finalizer
C17_Unmarked(key) ==
    /\ read[key] # Nil
    /\ ~read[key].deleting
    /\ finalizerName \notin Range(read[key].finalizers)

\* no call of the pass failed; GetConstraint not finding the constraint is the
\* answer for a constraint not registered yet
C17_NoFailure(key) ==
    \A i \in DOMAIN calls[key] :
      \/ calls[key][i].err = NoErr
      \/ calls[key][i] = Call("GetConstraint", "not found")

\* C17 as claimed: the pass that attaches the finalizer leaves the
\* registration, the status write and the cache entry to a second pass.
C17_TwoPasses ==
    \A key \in Keys :
      C17_Unmarked(key) /\ DidWith(key, "Update", NoErr) =>
        /\ ~Did(key, "AddConstraint")
        /\ ~Did(key, "Status.Update")
        /\ ~Did(key, "addConstraintKey")

\* C17 amended: one pass does all of it.  When a pass that read a live object
\* without the finalizer returns and none of its calls failed, it has attached
\* the finalizer, registered the constraint in the engine, written
\* enforced = true with no errors and put (action, active) in the cache under
\* the constraint key, in that order, and it returns no error and no requeue.
C17_OnePass ==
    \A key \in Keys :
      Returned(key) /\ C17_Unmarked(key) /\ C17_NoFailure(key) =>
        /\ LET attached == <<Call("Enter", NoErr), Call("Get", NoErr),
                              Call("Update", NoErr)>>
               written == <<Call("Status.Update", NoErr),
                            Call("addConstraintKey", NoErr)>>
           IN  calls[key] \in
                 {attached \o <<Call("GetConstraint", e), Call("AddConstraint", NoErr)>>
                           \o written : e \in {NoErr, "not found"}}
                 \cup {attached \o <<Call("GetConstraint", NoErr)>> \o written}
        /\ key \in DOMAIN engine /\ engine[key].spec = read[key].spec
        /\ key \in DOMAIN cache
        /\ cache[key] = [enforcementAction |-> read[key].spec.enforcementAction,
                         status |-> ActiveStatus]
        /\ reportMetrics[key]
        /\ result[key] = [requeue |-> FALSE, err |-> NoErr]
        /\ ~conflict[key] =>
             /\ key \in DOMAIN store
             /\ finalizerName \in Range(store[key].finalizers)
             /\ store[key].status = [GetHAStatus(read[key]) EXCEPT
                                       !.enforced = TRUE, !.errors = <<>>]

C17_Witness ==
    \E key \in Keys :
      /\ Returned(key)
      /\ C17_Unmarked(key)
      /\ C17_NoFailure(key)
      /\ "status" \notin DOMAIN read[key]
      /\ DidWith(key, "GetConstraint", "not found")
      /\ DidWith(key, "AddConstraint", NoErr)
      /\ ~conflict[key]
      /\ store[key].status = [enforced |-> TRUE, errors |-> <<>>]

----------------------------------------------------------------------------
(* C18: the finalizer is in the store before the engine is called *)

EngineOps == {"GetConstraint", "AddConstraint"}

C18_MarkedFirst ==
    \A key \in Keys :
      read[key] # Nil /\ ~read[key].deleting =>
        /\ CallsOf(key, EngineOps) # {} =>
             \/ finalizerName \in Range(read[key].finalizers)
             \/ /\ calls[key][3] = Call("Update", NoErr)
                /\ \A i \in CallsOf(key, EngineOps) : i > 3
        /\ DidWith(key, "Update", "failed") =>
             /\ Returned(key)
             /\ calls[key] = <<Call("Enter", NoErr), Call("Get", NoErr),
                               Call("Update", "failed")>>
             /\ ~reportMetrics[key]

C18_EngineStep ==
    \A key \in Keys :
      /\ Len(calls'[key]) > Len(calls[key])
           /\ calls'[key][Len(calls'[key])].op \in EngineOps
           /\ ~read[key].deleting =>
             /\ key \in DOMAIN store
             /\ finalizerName \in Range(store[key].finalizers)
      /\ pc[key] = "attach" /\ DidWith(key, "Update", "failed")' =>
           UNCHANGED <<store, engine, cache, reported>>

\* C18: a pass of a live object calls GetConstraint and AddConstraint only
\* when the stored object carries the finalizer: it read the object with it,
\* or its Update attaching it succeeded before; and when that Update fails the
\* pass returns with no call on the engine, no status write, no cache call and
\* no report, store, engine and cache being as they were.
C18_MarkerBeforeEngine == []C18_MarkedFirst /\ [][C18_EngineStep]_vars

C18_Witness ==
    \E key, other \in Keys :
      /\ pc[key] = "statusEnforced"
      /\ C17_Unmarked(key)
      /\ DidWith(key, "Update", NoErr)
      /\ DidWith(key, "AddConstraint", NoErr)
      /\ Returned(other)
      /\ C17_Unmarked(other)
      /\ DidWith(other, "Update", "failed")

----------------------------------------------------------------------------
(* C19: the last report is the one of the final cache *)

\* the pass has written the cache and its report is still to be sent
C19_ReportDue(key) == CallsOf(key, CacheOps) # {}

C19_ReportedIsCache ==
    IF reported = EmptyMap THEN cache = EmptyMap
    ELSE \A t \in Cells : t \in DOMAIN reported /\ reported[t] = EntriesWith(t)

\* C19: whenever no pass stands between its cache write and the end of its
\* report, and so whenever every pass has returned, the value last reported
\* for each (enforcement action, status) is the number of entries of the cache
\* with those tags; nothing is reported before the first cache write.  A
\* report counted on an older cache therefore never overwrites one counted on
\* a newer cache.
C19_LastReportIsFinal ==
    (\A key \in Keys : ~C19_ReportDue(key)) => C19_ReportedIsCache

C19_Witness ==
    /\ \A key \in Keys : pc[key] = "idle"
    /\ \E t \in Cells : t \in DOMAIN reported /\ reported[t] = 2
    /\ Cardinality(DOMAIN cache) = 2

----------------------------------------------------------------------------
(* C20: convergence *)

\* a pass that went past the switch, returns neither error nor requeue and
\* missed no change leaves its key converged, so the queue holds no key that
\* is not
C20_CleanMeansConverged ==
    \A key \in Keys :
      /\ Returned(key)
      /\ Did(key, "Get")
      /\ result[key] = [requeue |-> FALSE, err |-> NoErr]
      /\ ~conflict[key]
      => Converged(key)

\* C20: with the switch on, every queued key handed to Reconcile, every
\* Reconcile running to its end and the calls failing only finitely often,
\* each key converges and stays so once the other clients have stopped writing:
\* a live object ends with the finalizer, its spec in the engine, status
\* enforced = true without errors and cache entry (action, active); an object
\* whose deletion was requested ends with its constraint out of the engine, the
\* finalizer off and its cache entry deleted.
C20_Convergence ==
    /\ []C20_CleanMeansConverged
    /\ \A key \in Keys : <>[]Converged(key)

C20_Witness ==
    \E key \in Keys :
      /\ \A k \in Keys : pc[k] = "idle"
      /\ DOMAIN store = {}
      /\ DOMAIN reported # {}
      /\ Converged(key)
      /\ ~conflict[key]

====
